---------------------------- MODULE Spec2Model ----------------------------
(***************************************************************************)
(* Model of the caption pipeline of src/app.py: main() saves the uploaded  *)
(* video, and on "Generate Captions" runs extract -> transcribe -> format  *)
(* -> burn -> results, with every file kept under one working directory.   *)
(*                                                                         *)
(* Times are integers in microseconds (the resolution of datetime's        *)
(* timedelta); texts are sequences of one-character strings.  The subtitle *)
(* text is a sequence of blocks, each holding the index line, the two      *)
(* HH:MM:SS,mmm stamps and the content lines as srt.compose writes them.   *)
(*                                                                         *)
(* Spec: one browser session, library calls that may fail.  SpecConc: two  *)
(* sessions on the same working directory.  SpecFmt: the formatter, burner *)
(* and results section applied to every transcript of a bounded domain.    *)
(***************************************************************************)
EXTENDS Integers, Sequences, FiniteSets, TLC

\* ------------------------------------------------------------------ bounds
\* Longest transcript, longest segment text, largest time (in half
\* milliseconds) of the formatter's input domain; runs per browser session.
MaxSegs == 2
MaxTextLen == 2
MaxTime == 2
MaxRuns == 2
MaxConcRuns == 1

\* ------------------------------------------------------------- text values
Chars == {" ", "a"}

RECURSIVE lstrip(_)
lstrip(t) == IF t # <<>> /\ Head(t) = " " THEN lstrip(Tail(t)) ELSE t

RECURSIVE rstrip(_)
rstrip(t) ==
    IF t # <<>> /\ t[Len(t)] = " " THEN rstrip(SubSeq(t, 1, Len(t) - 1)) ELSE t

\* str.strip(): leading and trailing whitespace removed.
strip(t) == rstrip(lstrip(t))

\* ------------------------------------------------ srt.Subtitle and ordering
SegmentFields == {"start", "end", "text"}

\* A segment the formatter can read: subscripting a missing key raises.
HasFields(segment) == SegmentFields \subseteq DOMAIN segment

\* srt.Subtitle(index=i + 1, start=timedelta(...), end=timedelta(...),
\*              content=segment['text'].strip())
Subtitle(i, segment) ==
    [index   |-> i + 1,
     start   |-> segment["start"],
     end     |-> segment["end"],
     content |-> strip(segment["text"])]

\* Subtitle.__lt__: ordered by (start, end, index).
SubLess(a, b) ==
    \/ a.start < b.start
    \/ a.start = b.start /\ a.end < b.end
    \/ a.start = b.start /\ a.end = b.end /\ a.index < b.index

RECURSIVE InsertSorted(_, _)
InsertSorted(sub, sorted) ==
    IF sorted = <<>> THEN <<sub>>
    ELSE IF SubLess(sub, Head(sorted)) THEN <<sub>> \o sorted
    ELSE <<Head(sorted)>> \o InsertSorted(sub, Tail(sorted))

\* sorted(subtitles): stable, ascending.
RECURSIVE SortSubs(_)
SortSubs(subs) ==
    IF subs = <<>> THEN <<>>
    ELSE InsertSorted(subs[Len(subs)], SortSubs(SubSeq(subs, 1, Len(subs) - 1)))

\* Mutant: compose keeps a subtitle whatever its times.
ShouldSkip_ContentOnly(sub) == strip(sub.content) = <<>>

\* srt's rule for a subtitle that compose leaves out: no content, a negative
\* start, or a start that is not before the end.
ShouldSkip(sub) ==
    \/ strip(sub.content) = <<>>
    \/ sub.start < 0
    \/ sub.start >= sub.end

\* sort_and_reindex(subtitles, start_index=1, skip=True): the kept subtitles
\* of the sorted list, renumbered from 1.
RECURSIVE Reindex(_, _)
Reindex(sorted, next) ==
    IF sorted = <<>> THEN <<>>
    ELSE IF ShouldSkip(Head(sorted)) THEN Reindex(Tail(sorted), next)
    ELSE <<[Head(sorted) EXCEPT !.index = next]>> \o Reindex(Tail(sorted), next + 1)

\* timedelta_to_srt_timestamp: HH:MM:SS,mmm with the microseconds cut to
\* whole milliseconds.
Stamp(us) ==
    LET secs == us \div 1000000
    IN  [h  |-> secs \div 3600,
         m  |-> (secs % 3600) \div 60,
         s  |-> secs % 60,
         ms |-> (us % 1000000) \div 1000]

\* srt_timestamp_to_timedelta: the stamp read back as a timedelta.
Unstamp(st) == ((st.h * 60 + st.m) * 60 + st.s) * 1000000 + st.ms * 1000

\* Subtitle.to_srt: one block of subtitle text.
Block(sub) ==
    [index |-> sub.index, start |-> Stamp(sub.start), end |-> Stamp(sub.end),
     content |-> sub.content]

RECURSIVE MapBlocks(_)
MapBlocks(subs) ==
    IF subs = <<>> THEN <<>> ELSE <<Block(Head(subs))>> \o MapBlocks(Tail(subs))

\* srt.compose(subtitles) with its defaults (reindex=True, strict=True).
compose(subtitles) == MapBlocks(Reindex(SortSubs(subtitles), 1))

RECURSIVE parse(_)
\* srt.parse(srt_content): one Subtitle per block.
parse(srt_content) ==
    IF srt_content = <<>> THEN <<>>
    ELSE LET b == Head(srt_content)
         IN  <<[index |-> b.index, start |-> Unstamp(b.start),
                end |-> Unstamp(b.end), content |-> b.content]>>
             \o parse(Tail(srt_content))

\* transcription.get('segments', [])
SegmentsOf(transcription) ==
    IF "segments" \in DOMAIN transcription THEN transcription.segments ELSE <<>>

\* The loop of generate_srt_from_transcription raises at the first segment
\* with a missing key.
FormatRaises(transcription) ==
    \E i \in 1..Len(SegmentsOf(transcription)) :
        ~HasFields(SegmentsOf(transcription)[i])

BuildSubtitles(transcription) ==
    [i \in 1..Len(SegmentsOf(transcription)) |->
        Subtitle(i - 1, SegmentsOf(transcription)[i])]

\* generate_srt_from_transcription: the composed text, or "" (no block)
\* after any exception.
generate_srt_from_transcription(transcription) ==
    IF FormatRaises(transcription) THEN <<>>
    ELSE compose(BuildSubtitles(transcription))

\* ------------------------------------------------------- overlays (burner)
\* TextClip(text=sub.content, ...).with_duration(duration).with_start(start_sec)
Overlay(sub) ==
    [text |-> sub.content, start |-> sub.start, duration |-> sub.end - sub.start]

RECURSIVE Overlays(_)
Overlays(subs) ==
    IF subs = <<>> THEN <<>> ELSE <<Overlay(Head(subs))>> \o Overlays(Tail(subs))

\* ----------------------------------------------------------- input domains
RECURSIVE SeqsUpTo(_, _)
SeqsUpTo(S, n) ==
    IF n = 0 THEN {<<>>}
    ELSE LET shorter == SeqsUpTo(S, n - 1)
         IN  shorter \cup {Append(q, x) : q \in shorter, x \in S}

Texts == SeqsUpTo(Chars, MaxTextLen)

\* Times of the formatter's input domain, on a half-millisecond grid so that
\* the cut to whole milliseconds is visible.
Times == {500 * k : k \in 0..MaxTime}

WellFormedSegments == [start : Times, end : Times, text : Texts]

\* One segment for each key that can be missing.
MalformedSegments ==
    {[start |-> 0, end |-> 1000], [start |-> 0, text |-> <<"a">>],
     [end |-> 1000, text |-> <<"a">>]}

\* What a video says: the segments the speech model returns for its audio
\* (has_segments = FALSE: a result without the 'segments' key).
NoSpeech == [has_segments |-> TRUE, segments |-> <<>>]

Speeches ==
    {[has_segments |-> TRUE, segments |-> q] :
        q \in SeqsUpTo(WellFormedSegments \cup MalformedSegments, MaxSegs)}
    \cup {[has_segments |-> FALSE, segments |-> <<>>]}

\* Segments as the speech model emits them: times on its 20 ms grid, text
\* with a leading blank, and "" for a segment without speech.
Hello == [start |-> 1000000, end |-> 2000000, text |-> <<" ", "a">>]
World == [start |-> 2000000, end |-> 3000000, text |-> <<" ", "a", "a">>]
Instant == [start |-> 2000000, end |-> 2000000, text |-> <<>>]
InstantSpoken == [start |-> 2000000, end |-> 2000000, text |-> <<" ", "a">>]
Backwards == [start |-> 2020000, end |-> 2000000, text |-> <<" ", "a">>]
NoText == [start |-> 0, end |-> 1000000]

PipelineSpeeches ==
    {[has_segments |-> TRUE, segments |-> q] :
        q \in {<<>>, <<Hello>>, <<Hello, Instant, World>>, <<Hello, InstantSpoken>>,
               <<Backwards, Hello>>, <<Hello, NoText>>}}

\* An uploaded video: whether it has a decodable audio track, and its speech.
NoVideo == [track |-> "none", speech |-> NoSpeech]

PipelineVideos ==
    {[track |-> "audio", speech |-> sp] : sp \in PipelineSpeeches}
    \cup {[track |-> "silent", speech |-> NoSpeech],
          [track |-> "corrupt", speech |-> NoSpeech]}

FormatterVideos == {[track |-> "audio", speech |-> sp] : sp \in Speeches}

ConcurrentVideos ==
    {[track |-> "audio", speech |-> [has_segments |-> TRUE, segments |-> <<Hello>>]],
     [track |-> "audio", speech |-> [has_segments |-> TRUE, segments |-> <<World>>]]}

\* ------------------------------------------------------------------- files
AllSessions == {1, 2}

\* Mutant: a working directory per session.
video_path_PerSession(s) ==
    IF s = 1 THEN "temp_processing/1/uploaded_video.mp4"
    ELSE "temp_processing/2/uploaded_video.mp4"

\* temp_dir = "temp_processing" and the four fixed names joined to it.
video_path(s) == "temp_processing/uploaded_video.mp4"
audio_path(s) == "temp_processing/audio.wav"
srt_path(s) == "temp_processing/subtitles.srt"
output_video_path(s) == "temp_processing/output_with_subtitles.mp4"

Paths ==
    UNION {{video_path(s), audio_path(s), srt_path(s), output_video_path(s)} :
            s \in AllSessions}

\* File contents; src is the uploaded video the content derives from.
Absent == [kind |-> "absent"]
VideoFile(v) == [kind |-> "video", src |-> v]
AudioFile(v) == [kind |-> "audio", src |-> v]
SrtFile(v, content) == [kind |-> "srt", src |-> v, content |-> content]
OutputFile(v, mode, clips) ==
    [kind |-> "output", src |-> v, mode |-> mode, clips |-> clips]

\* ------------------------------------------------------------ UI settings
\* The selectbox options, as the words that str.split() yields.
ModelOptions ==
    {<<"base", "(Fast", "&", "Good)">>, <<"small", "(Better)">>,
     <<"medium", "(Best)">>}

DefaultModelOption == <<"base", "(Fast", "&", "Good)">>

\* whisper.load_model("base")
LoadedModel(option) == "base"

\* model_option.split()[0]
ModelUsedStat(option) == Head(option)

\* language="en" of the file-based call; the raw-sample call passes none.
FileCallLanguage == "en"
SamplesCallLanguage == "unset"

\* The language of a result when the call passed no hint.
DetectedLanguage == "detected"

\* ------------------------------------------------------------------- state
VARIABLES
    sessions,        \* the browser sessions that exist
    library,         \* the videos a user may upload
    files,           \* the working directory: path -> content
    uploaded_file,   \* per session: the file in the uploader
    model_option,    \* per session: the selectbox value
    pc,              \* per session: where the script run is
    runs,            \* per session: Generate Captions clicks so far
    budget,          \* clicks a session makes at most
    faults,          \* whether library calls may fail
    trace,           \* per session: stages executed by the current run
    messages,        \* per session: st.error/warning/info of the current run
    calls,           \* per session: model.transcribe calls of the current run
    transcription,   \* per session: result of transcribe_audio_whisper
    srt_content,     \* per session: result of generate_srt_from_transcription
    presented,       \* per session: what the results section shows
    atStart,         \* per session: the working directory when the script run began
    lastSaved        \* the upload most recently saved by any session

vars ==
    <<sessions, library, budget, faults, files, uploaded_file, model_option, pc, runs,
      trace, messages, calls, transcription, srt_content, presented, atStart, lastSaved>>

Stages == <<"ExtractingAudio", "Transcribing", "Formatting", "Burning", "Done">>

NoTranscript == [none |-> TRUE]
NoResult == [none |-> TRUE]

\* The script of session s is not running: a widget can be used.
ScriptEnded(s) ==
    \/ pc[s] \in {"Idle", "Ready", "Failed"}
    \/ pc[s] = "Done" /\ presented[s] # NoResult

\* with open(video_path, "wb") as f: f.write(uploaded_file.getbuffer())
SaveUpload(s, v, fs) == [fs EXCEPT ![video_path(s)] = VideoFile(v)]

\* ----------------------------------------------------- stage transitions
\* Mutants: Step 1 without its return; Step 1 continuing at Step 3.
AfterExtract_NoReturn(ok) == "Transcribing"

AfterExtract_SkipsTranscribing(ok) == IF ok THEN "Formatting" ELSE "Failed"

\* if extract_audio_from_video(...): ... else: st.error(...); return
AfterExtract(ok) == IF ok THEN "Transcribing" ELSE "Failed"

\* if transcription: ... else: st.error("Transcription failed"); return
AfterTranscribe(result) == IF result # NoTranscript THEN "Formatting" ELSE "Failed"

\* Step 3 has no check of the formatter's result: Step 4 always follows.
AfterFormat(raised) == "Burning"

\* Step 4: Done after the overlay video or the fallback copy was written,
\* return after "Could not process video with subtitles".
AfterBurn(burned, copied) == IF burned \/ copied THEN "Done" ELSE "Failed"

\* Mutant: the fallback leaves the half-written output in place.
FallbackOutput_NoCopy(video) == OutputFile(video.src, "partial", <<>>)

\* shutil.copy(video_path, output_video_path)
FallbackOutput(video) == OutputFile(video.src, "copy", <<>>)

\* ------------------------------------------------------------- UI actions
\* Every widget event reruns the script from the top: what the previous run
\* held in its local variables and showed on the page is gone.
ResetRun(s) ==
    /\ trace' = [trace EXCEPT ![s] = <<>>]
    /\ messages' = [messages EXCEPT ![s] = <<>>]
    /\ calls' = [calls EXCEPT ![s] = <<>>]
    /\ transcription' = [transcription EXCEPT ![s] = NoTranscript]
    /\ srt_content' = [srt_content EXCEPT ![s] = <<>>]
    /\ presented' = [presented EXCEPT ![s] = NoResult]

\* The uploader receives a file: the script reruns and saves it.
Upload(s, v) ==
    /\ s \in sessions /\ ScriptEnded(s)
    /\ v \in library
    /\ uploaded_file' = [uploaded_file EXCEPT ![s] = v]
    /\ files' = SaveUpload(s, v, files)
    /\ lastSaved' = v
    /\ pc' = [pc EXCEPT ![s] = "Ready"]
    /\ atStart' = [atStart EXCEPT ![s] = files']
    /\ ResetRun(s)
    /\ UNCHANGED <<sessions, library, budget, faults, model_option, runs>>

\* The selectbox changes: the script reruns, saving the upload again if any.
SelectModel(s, option) ==
    /\ s \in sessions /\ ScriptEnded(s)
    /\ option \in ModelOptions /\ option # model_option[s]
    /\ model_option' = [model_option EXCEPT ![s] = option]
    /\ IF uploaded_file[s] # NoVideo
       THEN /\ files' = SaveUpload(s, uploaded_file[s], files)
            /\ lastSaved' = uploaded_file[s]
            /\ pc' = [pc EXCEPT ![s] = "Ready"]
       ELSE UNCHANGED <<files, lastSaved, pc>>
    /\ atStart' = [atStart EXCEPT ![s] = files']
    /\ ResetRun(s)
    /\ UNCHANGED <<sessions, library, budget, faults, uploaded_file, runs>>

\* Generate Captions: the script reruns, saves the upload and starts Step 1.
Click(s) ==
    /\ s \in sessions /\ ScriptEnded(s)
    /\ uploaded_file[s] # NoVideo
    /\ runs[s] < budget
    /\ runs' = [runs EXCEPT ![s] = @ + 1]
    /\ files' = SaveUpload(s, uploaded_file[s], files)
    /\ lastSaved' = uploaded_file[s]
    /\ atStart' = [atStart EXCEPT ![s] = files']
    /\ pc' = [pc EXCEPT ![s] = "ExtractingAudio"]
    /\ ResetRun(s)
    /\ UNCHANGED <<sessions, library, budget, faults, uploaded_file, model_option>>

\* ------------------------------------------------------- Step 1: extract
\* extract_audio_from_video: True after the audio was written; False when the
\* video has no audio track, or (with st.error) when anything raised.
extract_audio_from_video(video) ==
    IF video.kind = "video" /\ video.src.track = "audio"
    THEN [ok |-> TRUE, error |-> FALSE]
    ELSE IF video.kind = "video" /\ video.src.track = "silent"
    THEN [ok |-> FALSE, error |-> FALSE]
    ELSE [ok |-> FALSE, error |-> TRUE]

ExtractAudio(s) ==
    /\ s \in sessions /\ pc[s] = "ExtractingAudio"
    /\ LET video == files[video_path(s)]
           r == extract_audio_from_video(video)
       IN  /\ files' = IF r.ok
                       THEN [files EXCEPT ![audio_path(s)] = AudioFile(video.src)]
                       ELSE files
           /\ messages' = [messages EXCEPT ![s] =
                  @ \o (IF r.error THEN <<"Error extracting audio">> ELSE <<>>)
                    \o (IF r.ok THEN <<>> ELSE <<"Failed to extract audio">>)]
           /\ pc' = [pc EXCEPT ![s] = AfterExtract(r.ok)]
    /\ trace' = [trace EXCEPT ![s] = Append(@, "ExtractingAudio")]
    /\ UNCHANGED <<sessions, library, budget, faults, uploaded_file, model_option, runs, calls,
                   transcription, srt_content, presented, atStart, lastSaved>>

\* ---------------------------------------------------- Step 2: transcribe
\* What the environment decides in transcribe_audio_whisper: whether the
\* model loads, whether the file-based call succeeds, and how the raw-sample
\* path ends.  Without faults every library call succeeds.
TranscribeEnvs ==
    {env \in [load_ok : BOOLEAN, file_ok : BOOLEAN,
              samples : {"ok", "decode_fails", "transcribe_fails"}] :
        faults \/ (env.load_ok /\ env.file_ok /\ env.samples = "ok")}

\* The dict model.transcribe returns.
Result(speech, language) ==
    IF speech.has_segments
    THEN [language |-> language, segments |-> speech.segments]
    ELSE [language |-> language]

FileCall(audio, option) ==
    [input |-> "file", language |-> FileCallLanguage,
     model |-> LoadedModel(option), audio |-> audio]

SamplesCall(audio, option) ==
    [input |-> "samples", language |-> SamplesCallLanguage,
     model |-> LoadedModel(option), audio |-> audio]

\* transcribe_audio_whisper(audio_path): the result (None after any
\* exception of the outer try) and the model.transcribe calls made.
transcribe_audio_whisper(audio, option, env) ==
    IF ~env.load_ok
    THEN [result |-> NoTranscript, calls |-> <<>>]
    ELSE IF env.file_ok /\ audio.kind = "audio"
    THEN [result |-> Result(audio.src.speech, FileCallLanguage),
          calls |-> <<FileCall(audio, option)>>]
    ELSE IF env.samples = "decode_fails" \/ audio.kind # "audio"
    THEN [result |-> NoTranscript, calls |-> <<FileCall(audio, option)>>]
    ELSE IF env.samples = "transcribe_fails"
    THEN [result |-> NoTranscript,
          calls |-> <<FileCall(audio, option), SamplesCall(audio, option)>>]
    ELSE [result |-> Result(audio.src.speech, DetectedLanguage),
          calls |-> <<FileCall(audio, option), SamplesCall(audio, option)>>]

Transcribe(s) ==
    /\ s \in sessions /\ pc[s] = "Transcribing"
    /\ \E env \in TranscribeEnvs :
         LET r == transcribe_audio_whisper(files[audio_path(s)], model_option[s], env)
         IN  /\ transcription' = [transcription EXCEPT ![s] = r.result]
             /\ calls' = [calls EXCEPT ![s] = r.calls]
             /\ messages' = [messages EXCEPT ![s] =
                    @ \o (IF r.result = NoTranscript
                          THEN <<"Error in transcription", "Transcription failed">>
                          ELSE <<>>)]
             /\ pc' = [pc EXCEPT ![s] = AfterTranscribe(r.result)]
    /\ trace' = [trace EXCEPT ![s] = Append(@, "Transcribing")]
    /\ UNCHANGED <<sessions, library, budget, faults, files, uploaded_file, model_option, runs,
                   srt_content, presented, atStart, lastSaved>>

\* The upload the current transcript derives from.
Heard(s) == IF calls[s] = <<>> THEN NoVideo ELSE calls[s][Len(calls[s])].audio.src

\* -------------------------------------------------------- Step 3: format
Format(s) ==
    /\ s \in sessions /\ pc[s] = "Formatting"
    /\ LET raised == FormatRaises(transcription[s])
           content == generate_srt_from_transcription(transcription[s])
       IN  /\ srt_content' = [srt_content EXCEPT ![s] = content]
           /\ files' = [files EXCEPT ![srt_path(s)] = SrtFile(Heard(s), content)]
           /\ messages' = [messages EXCEPT ![s] =
                  @ \o (IF raised THEN <<"Error generating SRT">> ELSE <<>>)]
           /\ pc' = [pc EXCEPT ![s] = AfterFormat(raised)]
    /\ trace' = [trace EXCEPT ![s] = Append(@, "Formatting")]
    /\ UNCHANGED <<sessions, library, budget, faults, uploaded_file, model_option, runs, calls,
                   transcription, presented, atStart, lastSaved>>

\* ---------------------------------------------------------- Step 4: burn
\* How the overlay attempt ends, and whether the fallback copy succeeds.
BurnEnvs ==
    {env \in [burn : {"ok", "fails_before_write", "fails_in_write"},
              copy_ok : BOOLEAN] :
        faults \/ (env.burn = "ok" /\ env.copy_ok)}

Burn(s) ==
    /\ s \in sessions /\ pc[s] = "Burning"
    /\ \E env \in BurnEnvs :
         LET video == files[video_path(s)]
             clips == Overlays(parse(srt_content[s]))
             burned == env.burn = "ok"
             copied == ~burned /\ env.copy_ok
             next == AfterBurn(burned, copied)
         IN  /\ files' =
                  IF burned
                  THEN [files EXCEPT ![output_video_path(s)] =
                            OutputFile(video.src, "burned", clips)]
                  ELSE IF copied
                  THEN [files EXCEPT ![output_video_path(s)] = FallbackOutput(video)]
                  ELSE IF env.burn = "fails_in_write"
                  THEN [files EXCEPT ![output_video_path(s)] =
                            OutputFile(video.src, "partial", <<>>)]
                  ELSE files
             /\ messages' = [messages EXCEPT ![s] =
                    @ \o (IF burned THEN <<>> ELSE <<"Using alternative method">>)
                      \o (IF copied THEN <<"Video saved without subtitles">> ELSE <<>>)
                      \o (IF burned \/ copied THEN <<>>
                          ELSE <<"Could not process video with subtitles">>)]
             /\ pc' = [pc EXCEPT ![s] = next]
             /\ trace' = [trace EXCEPT ![s] =
                    Append(@, "Burning") \o (IF next = "Done" THEN <<"Done">> ELSE <<>>)]
    /\ UNCHANGED <<sessions, library, budget, faults, uploaded_file, model_option, runs, calls,
                   transcription, srt_content, presented, atStart, lastSaved>>

\* ------------------------------------------------------ results section
Present(s) ==
    /\ s \in sessions /\ pc[s] = "Done" /\ presented[s] = NoResult
    /\ presented' = [presented EXCEPT ![s] =
           [video |-> files[output_video_path(s)],
            srt |-> files[srt_path(s)],
            segments |-> Len(SegmentsOf(transcription[s])),
            model_used |-> ModelUsedStat(model_option[s])]]
    /\ UNCHANGED <<sessions, library, budget, faults, files, uploaded_file, model_option, pc, runs,
                   trace, messages, calls, transcription, srt_content, atStart,
                   lastSaved>>

\* ---------------------------------------------------------- specifications
InitWith(ss, lib, clicks, failing) ==
    /\ sessions = ss
    /\ library = lib
    /\ budget = clicks
    /\ faults = failing
    /\ files = [p \in Paths |-> Absent]
    /\ uploaded_file = [s \in AllSessions |-> NoVideo]
    /\ model_option = [s \in AllSessions |-> DefaultModelOption]
    /\ pc = [s \in AllSessions |-> "Idle"]
    /\ runs = [s \in AllSessions |-> 0]
    /\ trace = [s \in AllSessions |-> <<>>]
    /\ messages = [s \in AllSessions |-> <<>>]
    /\ calls = [s \in AllSessions |-> <<>>]
    /\ transcription = [s \in AllSessions |-> NoTranscript]
    /\ srt_content = [s \in AllSessions |-> <<>>]
    /\ presented = [s \in AllSessions |-> NoResult]
    /\ atStart = [s \in AllSessions |-> [p \in Paths |-> Absent]]
    /\ lastSaved = NoVideo

\* One session, any video of the pipeline's library.
Init == InitWith({1}, PipelineVideos, MaxRuns, TRUE)

\* Two sessions against the same working directory, every library call
\* succeeding.
InitConc == InitWith({1, 2}, ConcurrentVideos, MaxConcRuns, FALSE)

\* One session whose run has just transcribed a video with any speech of the
\* formatter's input domain (file-based call, first run).
InitFmt ==
    \E v \in FormatterVideos :
        LET uploaded == SaveUpload(1, v, [p \in Paths |-> Absent])
            audio == AudioFile(v)
        IN  /\ sessions = {1}
            /\ library = FormatterVideos
            /\ budget = 1
            /\ faults = TRUE
            /\ files = [uploaded EXCEPT ![audio_path(1)] = audio]
            /\ uploaded_file = [s \in AllSessions |-> IF s = 1 THEN v ELSE NoVideo]
            /\ model_option = [s \in AllSessions |-> DefaultModelOption]
            /\ pc = [s \in AllSessions |-> IF s = 1 THEN "Formatting" ELSE "Idle"]
            /\ runs = [s \in AllSessions |-> IF s = 1 THEN 1 ELSE 0]
            /\ trace = [s \in AllSessions |->
                   IF s = 1 THEN <<"ExtractingAudio", "Transcribing">> ELSE <<>>]
            /\ messages = [s \in AllSessions |-> <<>>]
            /\ calls = [s \in AllSessions |->
                   IF s = 1 THEN <<FileCall(audio, DefaultModelOption)>> ELSE <<>>]
            /\ transcription = [s \in AllSessions |->
                   IF s = 1 THEN Result(v.speech, FileCallLanguage) ELSE NoTranscript]
            /\ srt_content = [s \in AllSessions |-> <<>>]
            /\ presented = [s \in AllSessions |-> NoResult]
            /\ atStart = [s \in AllSessions |->
                   IF s = 1 THEN uploaded ELSE [p \in Paths |-> Absent]]
            /\ lastSaved = v

Next ==
    \E s \in AllSessions :
        \/ \E v \in library : Upload(s, v)
        \/ \E option \in ModelOptions : SelectModel(s, option)
        \/ Click(s)
        \/ ExtractAudio(s)
        \/ Transcribe(s)
        \/ Format(s)
        \/ Burn(s)
        \/ Present(s)

NextConc ==
    \E s \in AllSessions :
        \/ \E v \in library : Upload(s, v)
        \/ Click(s)
        \/ ExtractAudio(s)
        \/ Transcribe(s)
        \/ Format(s)
        \/ Burn(s)
        \/ Present(s)

NextFmt == \E s \in AllSessions : Format(s) \/ Burn(s) \/ Present(s)

Spec == Init /\ [][Next]_vars

SpecConc == InitConc /\ [][NextConc]_vars

SpecFmt == InitFmt /\ [][NextFmt]_vars

\* ------------------------------------------------------------------ claims
Range(q) == {q[i] : i \in DOMAIN q}

IsPrefix(a, b) == Len(a) <= Len(b) /\ SubSeq(b, 1, Len(a)) = a

Said(s, msg) == msg \in Range(messages[s])

StageIndex(stage) == CHOOSE i \in DOMAIN Stages : Stages[i] = stage

WellFormed(result) ==
    /\ result # NoTranscript
    /\ \A i \in DOMAIN SegmentsOf(result) : HasFields(SegmentsOf(result)[i])

PositiveDuration(segment) == segment["end"] > segment["start"]

\* A transcript of the data model: every segment has its three fields and
\* ends after it starts.
Valid(result) ==
    /\ WellFormed(result)
    /\ \A i \in DOMAIN SegmentsOf(result) : PositiveDuration(SegmentsOf(result)[i])

\* The run of session s has finished Step 3.
Formatted(s) == "Formatting" \in Range(trace[s])

\* C1 (state part): the stages a run has executed are an initial part of
\* ExtractingAudio, Transcribing, Formatting, Burning, Done; the stage a run
\* is in has exactly the stages before it behind it; Done has all five; an
\* aborted run has executed at least one stage and not Done.
C1_Ordered(s) ==
    /\ IsPrefix(trace[s], Stages)
    /\ pc[s] \in {"Idle", "Ready"} => trace[s] = <<>>
    /\ pc[s] \in Range(Stages) \ {"Done"} =>
           trace[s] = SubSeq(Stages, 1, StageIndex(pc[s]) - 1)
    /\ pc[s] = "Done" => trace[s] = Stages
    /\ pc[s] = "Failed" => trace[s] # <<>> /\ "Done" \notin Range(trace[s])

\* C1 (step part): a step of a run executes no stage, or the one stage the
\* run is in (with Done when Burning completes); after Done or Failed the
\* run executes nothing more, and only a rerun of the script clears it.
C1_Step(s) ==
    \/ trace'[s] = trace[s]
    \/ /\ ScriptEnded(s)
       /\ trace'[s] = <<>>
    \/ /\ pc[s] \in Range(Stages) \ {"Done"}
       /\ runs'[s] = runs[s]
       /\ \/ trace'[s] = Append(trace[s], pc[s])
          \/ pc[s] = "Burning" /\ trace'[s] = trace[s] \o <<"Burning", "Done">>

\* C1: within one run the stages execute strictly in order, each at most
\* once, none skipped on the way to Done, and none after Done or Failed.
C1_StageOrder ==
    /\ [](\A s \in sessions : C1_Ordered(s))
    /\ [][\A s \in sessions : C1_Step(s)]_vars

C1_Witness ==
    \E s \in sessions : pc[s] = "Done" /\ trace[s] = Stages /\ runs[s] = 2

\* The except branch of Step 4 was entered in the current run.
BurnFailed(s) == Said(s, "Using alternative method")

CopyFailed(s) == Said(s, "Could not process video with subtitles")

SubtitleFileKept(s) == files[srt_path(s)] = SrtFile(uploaded_file[s], srt_content[s])

C3_FormattingErrorFatal ==
    \A s \in sessions :
        Said(s, "Error generating SRT") =>
            /\ pc[s] = "Failed"
            /\ files[srt_path(s)] = atStart[s][srt_path(s)]
            /\ "Burning" \notin Range(trace[s])

\* The uploaded video has no audio track or does not decode, and Step 1 ran.
ExtractionFailed(s) ==
    /\ trace[s] # <<>>
    /\ uploaded_file[s].track \in {"silent", "corrupt"}

\* C4: when the video has no audio track or does not decode, the extractor
\* returns False, the run is aborted in ExtractingAudio, the transcriber is
\* not called, and the subtitle file and the output video are as they were
\* when the run began.
C4_ExtractionFailureAborts ==
    \A s \in sessions :
        ExtractionFailed(s) =>
            /\ ~extract_audio_from_video(files[video_path(s)]).ok
            /\ pc[s] = "Failed" /\ trace[s] = <<"ExtractingAudio">>
            /\ calls[s] = <<>> /\ transcription[s] = NoTranscript
            /\ files[srt_path(s)] = atStart[s][srt_path(s)]
            /\ files[output_video_path(s)] = atStart[s][output_video_path(s)]
            /\ presented[s] = NoResult

C4_Witness ==
    \E s \in sessions :
        /\ ExtractionFailed(s) /\ pc[s] = "Failed"
        /\ atStart[s][srt_path(s)] # Absent
        /\ atStart[s][output_video_path(s)] # Absent

\* C5: for a transcript of N segments (each with start, end > start and
\* text) the subtitle text has N entries, indexed 1..N, the k-th carrying
\* the k-th segment's start, end and (stripped) text.
C5_OneEntryPerSegment ==
    \A s \in sessions :
        Formatted(s) /\ Valid(transcription[s]) =>
            LET segs == SegmentsOf(transcription[s])
                blocks == srt_content[s]
            IN  /\ Len(blocks) = Len(segs)
                /\ \A k \in DOMAIN blocks :
                       /\ blocks[k].index = k
                       /\ blocks[k].start = Stamp(segs[k].start)
                       /\ blocks[k].end = Stamp(segs[k].end)
                       /\ blocks[k].content = strip(segs[k].text)

\* C6: parsing the formatted subtitle text back yields, segment by segment,
\* the original start and end in whole milliseconds and the original text.
C6_RoundTrip ==
    \A s \in sessions :
        Formatted(s) /\ Valid(transcription[s]) =>
            LET segs == SegmentsOf(transcription[s])
                back == parse(srt_content[s])
            IN  /\ Len(back) = Len(segs)
                /\ \A k \in DOMAIN back :
                       /\ back[k].start \div 1000 = segs[k].start \div 1000
                       /\ back[k].end \div 1000 = segs[k].end \div 1000
                       /\ back[k].content = segs[k].text

\* C7: every transcription call of a run uses the model of the selected
\* option, and the 'model used' statistic of a finished run names the model
\* that produced the transcript.
C7_SelectedTierUsed ==
    \A s \in sessions :
        /\ \A i \in DOMAIN calls[s] :
               calls[s][i].model = ModelUsedStat(model_option[s])
        /\ pc[s] = "Done" /\ presented[s] # NoResult =>
               presented[s].model_used = calls[s][Len(calls[s])].model

\* C8: the working files are shared by all sessions: the uploaded-video file
\* a run reads holds the upload most recently saved by any session, whether
\* or not it is the run's own.
C8_SharedWorkingDirectory ==
    \A s \in sessions :
        files[video_path(s)] =
            IF lastSaved = NoVideo THEN Absent ELSE VideoFile(lastSaved)

\* A finished run presents a subtitle file and an output video derived from
\* the other session's upload.
C8_Witness ==
    \E s \in sessions :
        /\ pc[s] = "Done" /\ presented[s] # NoResult
        /\ presented[s].srt.src # uploaded_file[s]
        /\ presented[s].video.src # uploaded_file[s]

C10_TwoTierSameHint ==
    \A s \in sessions :
        /\ Len(calls[s]) <= 2
        /\ Len(calls[s]) >= 1 => calls[s][1].input = "file"
        /\ Len(calls[s]) = 2 => calls[s][2].input = "samples"
        /\ \A i \in DOMAIN calls[s] : calls[s][i].language = calls[s][1].language
        /\ "Transcribing" \in Range(trace[s]) /\ transcription[s] = NoTranscript =>
               /\ pc[s] = "Failed"
               /\ trace[s] = <<"ExtractingAudio", "Transcribing">>

=============================================================================
